---- MODULE Spec2Model ----
(***************************************************************************)
(* State-machine model of repo-merger.py: one session of the merge tool.   *)
(* Every action is one statement (or one blocking call) of the module-     *)
(* level script and of the functions it calls.  External commands (git,    *)
(* git-filter-repo) are the environment: a command other than a merge may  *)
(* exit zero or non-zero; the result of a merge is computed from the two   *)
(* trees and the flags on the command line.                                *)
(***************************************************************************)
EXTENDS Integers, Sequences, FiniteSets, TLC

VARIABLES
    pc,            \* position of the script
    args,          \* parsed command line (argparse namespace)
    installed,     \* which of the external tools shutil.which finds
    env,           \* GITMERGE_BASE / GITMERGE_MERGE: set or not
    fs,            \* the two working-area directories now
    tree,          \* head tree of each working area (path -> content)
    remoteHead,    \* tree of merge_repo/HEAD as fetched into base_repo
    mergeHead,     \* base_repo has an unconcluded merge (MERGE_HEAD exists)
    cloneProc,     \* the working area a git clone child process is writing
    cloneRc,       \* return value of each clone_repo call
    origBase,      \* tree of base_repo when it was acquired
    origInc,       \* tree of merge_repo when it was acquired
    subdir,        \* subdirectory the incoming history is moved into
    loc,           \* locals of choose_branch: branches, head, dates
    merge_branch,  \* branch of the incoming repository
    base_branch,   \* branch of the base repository
    SUCCESS,       \* the module-level flag
    exc,           \* exception propagating out of the session block
    exitCode,      \* exit status of the process (-1 while running)
    ANALYTICS,     \* the module-level list run_cmd appends to
    cmds,          \* every command run_cmd executed, with its result
    prompts,       \* every Prompt.ask the operator had to answer
    printed,       \* the analytics tables printed on the console
    outcome,       \* which branch of perform_merge's routing was taken
    handler,       \* SIGINT handler installed
    sigints        \* SIGINTs delivered so far

cfgVars  == <<args, installed>>
gitVars  == <<fs, tree, remoteHead, mergeHead, cloneProc, cloneRc, origBase, origInc>>
ctlVars  == <<SUCCESS, exc, exitCode>>
logVars  == <<ANALYTICS, cmds>>
sessVars == <<subdir, loc, merge_branch, base_branch, outcome>>
sigVars  == <<handler, sigints>>
vars == <<pc, args, installed, env, fs, tree, remoteHead, mergeHead, cloneProc, cloneRc,
          origBase, origInc, subdir, loc, merge_branch, base_branch, SUCCESS, exc,
          exitCode, ANALYTICS, cmds, prompts, printed, outcome, handler, sigints>>

\* Bound on the number of SIGINTs delivered to one session.
MaxSigints == 1

BASE_REPO_DIR  == "base_repo"
MERGE_REPO_DIR == "merge_repo"
Dirs == {BASE_REPO_DIR, MERGE_REPO_DIR}

Deps == <<"git", "git-filter-repo">>

NoTree == <<>>
NoLoc  == <<>>
None   == "None"

----------------------------------------------------------------------------
(* Trees of the remote repositories.  A path is a sequence of components.  *)

BaseTrees(S) ==
    { [p \in {<<"a.txt">>} |-> "base"],
      [p \in {<<"a.txt">>, <<S, "shared.txt">>} |-> "base"],
      [p \in {<<"a.txt">>, <<S>>} |-> "base"] }

IncomingTrees ==
    { [p \in {<<"b.txt">>, <<"shared.txt">>} |-> "incoming"] }

StaleBaseTree  == [p \in {<<"a.txt">>} |-> "base"]
StaleMergeTree == [p \in {<<"b.txt">>} |-> "incoming"]

Subdirs == {"vendor"}

\* Mutant of Relocate: the history is left where it was.
RelocateNowhere(t, S) == t

\* git-filter-repo --to-subdirectory-filter S: every path gets the prefix S.
Relocate(t, S) ==
    [q \in {<<S>> \o p : p \in DOMAIN t} |-> t[Tail(q)]]

IsProperPrefix(p, q) == Len(p) < Len(q) /\ SubSeq(q, 1, Len(p)) = p

\* Paths both sides have with different content.
ContentConflicts(b, i) == {p \in DOMAIN b \cap DOMAIN i : b[p] # i[p]}

\* A path that is a file on one side and a directory on the other.
PathConflicts(b, i) ==
    {p \in DOMAIN b \cup DOMAIN i :
        \E q \in DOMAIN b \cup DOMAIN i : IsProperPrefix(p, q)}

\* Exit of `git merge merge_repo/HEAD [--allow-unrelated-histories] [-X side]`
\* in base_repo.  The incoming history was rewritten by git-filter-repo, so
\* it shares no commit with base.
GitMerge(b, i, inProgress, allowUnrelated, X) ==
    IF inProgress THEN "refused"                  \* MERGE_HEAD exists
    ELSE IF ~allowUnrelated THEN "refused"        \* refusing to merge unrelated histories
    ELSE IF PathConflicts(b, i) # {} THEN "conflict"
    ELSE IF X = "" /\ ContentConflicts(b, i) # {} THEN "conflict"
    ELSE "ok"

\* The tree of the merge commit, conflicting content taken from side X.
MergedTree(b, i, X) ==
    [p \in DOMAIN b \cup DOMAIN i |->
        IF p \notin DOMAIN i THEN b[p]
        ELSE IF p \notin DOMAIN b THEN i[p]
        ELSE IF X = "theirs" THEN i[p] ELSE b[p]]

----------------------------------------------------------------------------
(* Command lines and the text of the exception run_cmd raises.             *)

MergeCmd(flag) ==
    IF flag = "-X ours" THEN "git merge merge_repo/HEAD --allow-unrelated-histories -X ours"
    ELSE IF flag = "-X theirs" THEN "git merge merge_repo/HEAD --allow-unrelated-histories -X theirs"
    ELSE "git merge merge_repo/HEAD --allow-unrelated-histories"

RerunCmd(X) ==
    IF X = "theirs" THEN "git merge --strategy=recursive -X theirs merge_repo/HEAD"
    ELSE "git merge --strategy=recursive -X ours merge_repo/HEAD"

\* What run_cmd raises when the process exits non-zero (lines 47-49).  With
\* live_output the output is not captured, result.stderr is None and the
\* f-string of line 48 raises AttributeError before line 49 is reached.
Raised(live_output) == IF live_output THEN "AttributeError" ELSE "Exception"

\* str(e).lower() of the exception a failed merge command raises, cut into
\* words and the separators between them: the text of the AttributeError
\* in streaming mode, "Command failed: {cmd}" in capture mode.
StrELower(live_output, flag) ==
    IF live_output
    THEN <<"'nonetype'", " ", "object", " ", "has", " ", "no", " ", "attribute", " ",
           "'strip'">>
    ELSE <<"command", " ", "failed:", " ", "git", " ", "merge", " ", "merge_repo/head", " ",
           "--allow-", "unrelated", "-", "histories">>
         \o (IF flag = "-X ours" THEN <<" ", "-x", " ", "ours">>
             ELSE IF flag = "-X theirs" THEN <<" ", "-x", " ", "theirs">>
             ELSE <<>>)

\* Python's `phrase in text`.
Contains(text, phrase) ==
    \E k \in 0..(Len(text) - Len(phrase)) :
        SubSeq(text, k + 1, k + Len(phrase)) = phrase

UnrelatedPhrase == <<"unrelated", " ", "histories">>

----------------------------------------------------------------------------
(* RepositoryProbe: the pure parts of list_branches and get_head_branch.   *)

\* A line of `git branch -r`, stripped and split at "/".
PointerLine(b) == <<"origin", "HEAD -> origin", b>>
BranchLine(b)  == <<"origin", b>>

\* The lines of the remote branches feature/login and HEAD-fix.
SlashBranchLine == <<"origin", "feature", "login">>
HeadNamedLine   == <<"origin", "HEAD-fix">>

\* "->" in line, "HEAD" in line: decided by the components of the line.
HasArrow(line) == \E k \in 1..Len(line) : line[k] \in {"HEAD -> origin"}
HasHEAD(line)  == \E k \in 1..Len(line) : line[k] \in {"HEAD -> origin", "HEAD", "HEAD-fix"}

\* Branch names in the order Python's sorted() gives them.
NameOrder == <<"dev", "login", "main">>

Last(s) == s[Len(s)]

list_branches(raw) ==
    LET kept  == SelectSeq(raw, LAMBDA line : ~HasArrow(line) /\ ~HasHEAD(line))
        names == {Last(kept[k]) : k \in 1..Len(kept)}
    IN  SelectSeq(NameOrder, LAMBDA n : n \in names)

\* Outputs of `git branch -r` a session meets.
SessionListings ==
    { <<>>,
      <<PointerLine("main"), BranchLine("main"), BranchLine("dev"), BranchLine("main")>> }

\* A line of `git remote show origin`: the "HEAD branch:" line or another one.
HeadBranchLine(b) == [hb |-> TRUE, value |-> b]
OtherLine         == [hb |-> FALSE, value |-> ""]

\* The loop of get_head_branch returns at its first iteration.
get_head_branch(output) ==
    IF Len(output) = 0 THEN None
    ELSE IF output[1].hb THEN output[1].value
    ELSE None

\* Outputs of `git remote show origin` a session meets.
SessionRemoteShows ==
    { <<OtherLine, OtherLine, HeadBranchLine("dev")>> }

\* Lines 108-116: what get_head_branch returns when the query ended with r
\* and printed output; the handler of line 115 answers "main".
HeadAnswer(r, output) == IF r = "ok" THEN get_head_branch(output) ELSE "main"

InSeq(x, s) == \E k \in 1..Len(s) : s[k] = x

----------------------------------------------------------------------------
(* ProcessRunner and WorkspaceManager.                                     *)

Entry(cmd, arg, ok) == [cmd |-> cmd, arg |-> arg, success |-> ok]

\* What running a command in cwd can give: subprocess.run raises when cwd
\* is missing, git fails outside a repository, and may fail or not inside.
Results(cwd) ==
    IF fs[cwd] = "absent" THEN {"nocwd"}
    ELSE IF fs[cwd] = "repo" THEN {"ok", "fail"}
    ELSE {"fail"}

\* The exception a run_cmd call with result r raises, in capture mode and
\* in streaming mode.
ExcOf(r)     == IF r = "nocwd" THEN "FileNotFoundError" ELSE Raised(FALSE)
ExcOfLive(r) == IF r = "nocwd" THEN "FileNotFoundError" ELSE Raised(TRUE)

\* run_cmd's bookkeeping for one execution with result r.
Logged(cmd, arg, r) ==
    IF r = "nocwd"
    THEN UNCHANGED logVars
    ELSE /\ cmds' = Append(cmds, Entry(cmd, arg, r = "ok"))
         /\ ANALYTICS' = IF args.analytics
                         THEN Append(ANALYTICS, Entry(cmd, arg, r = "ok"))
                         ELSE ANALYTICS

\* shutil.rmtree with the onerror retry: the directory is gone afterwards.
Rmtree(state) == "absent"

\* The directories cleanup() visits, in its order.
CleanupOrder == <<BASE_REPO_DIR, MERGE_REPO_DIR>>

\* Mutant of cleanup: without the exists() test rmtree raises on the first
\* directory that is not there and the loop is left.
cleanupNoExistsTest(f) ==
    [d \in Dirs |-> IF \E j \in 1..Len(CleanupOrder) :
                          /\ f[CleanupOrder[j]] = "absent"
                          /\ \E i \in j..Len(CleanupOrder) : CleanupOrder[i] = d
                    THEN f[d] ELSE Rmtree(f[d])]

\* Mutant of cleanup: the loop visits base_repo only.
cleanupBaseOnly(f) ==
    [d \in Dirs |-> IF d = BASE_REPO_DIR /\ f[d] # "absent" THEN Rmtree(f[d]) ELSE f[d]]

\* cleanup(): both working areas, each only if it exists.
cleanup(f) ==
    [d \in Dirs |-> IF InSeq(d, CleanupOrder) /\ f[d] # "absent" THEN Rmtree(f[d]) ELSE f[d]]

\* cleanup() stopped by an error of rmtree on the k-th directory: the ones
\* before it are removed, it and the ones after it are left.
cleanupStoppedAt(f, k) ==
    [d \in Dirs |-> IF \E j \in 1..(k - 1) : CleanupOrder[j] = d THEN cleanup(f)[d] ELSE f[d]]

\* What cleanup() can leave.  rmtree races with a git clone child that is
\* still writing the directory: it removes it, or fails on it and raises.
CleanupOutcomes(f) ==
    {cleanup(f)} \cup
    {cleanupStoppedAt(f, k) : k \in {j \in 1..Len(CleanupOrder) :
                                         cloneProc = CleanupOrder[j] /\ f[cloneProc] # "absent"}}

\* cleanup() as a step that leaves the directories as f2.
CleanupTo(f2) ==
    /\ fs' = f2
    /\ tree' = [d \in Dirs |-> IF f2[d] = "absent" THEN NoTree ELSE tree[d]]
    /\ remoteHead' = IF f2[BASE_REPO_DIR] = "absent" THEN NoTree ELSE remoteHead
    /\ mergeHead' = IF f2[BASE_REPO_DIR] = "absent" THEN FALSE ELSE mergeHead
    /\ UNCHANGED <<cloneProc, cloneRc, origBase, origInc>>

DoCleanup == \E f2 \in CleanupOutcomes(fs) : CleanupTo(f2)

\* An exception leaves the try block: the finally clause runs next.
Raise(e) == pc' = "finally" /\ exc' = e

----------------------------------------------------------------------------
(* Start-up, lines 236-248.                                                *)

ArgSpace ==
    [retry : BOOLEAN, merge_conflict_base : BOOLEAN, merge_conflict_side : BOOLEAN,
     merge_preview : BOOLEAN, show_diff : BOOLEAN, y : BOOLEAN, verbose : BOOLEAN,
     analytics : BOOLEAN, base_branch : {"", "main"}]

\* The two URLs come from the environment together or not at all.
EnvSpace == {[GITMERGE_BASE |-> v, GITMERGE_MERGE |-> v] : v \in BOOLEAN}

Init ==
    /\ pc = "parse_args"
    /\ args \in ArgSpace
    /\ installed \in [1..Len(Deps) -> BOOLEAN]
    /\ env = [GITMERGE_BASE |-> FALSE, GITMERGE_MERGE |-> FALSE]
    /\ fs \in {[d \in Dirs |-> "absent"], [d \in Dirs |-> "repo"]}
    /\ tree = [d \in Dirs |-> IF fs[d] = "absent" THEN NoTree
                              ELSE IF d = BASE_REPO_DIR THEN StaleBaseTree
                              ELSE StaleMergeTree]
    /\ remoteHead = NoTree
    /\ mergeHead = FALSE
    /\ cloneProc = "none"
    /\ cloneRc = [d \in Dirs |-> "notrun"]
    /\ origBase = NoTree
    /\ origInc = NoTree
    /\ subdir = ""
    /\ loc = NoLoc
    /\ merge_branch = ""
    /\ base_branch = ""
    /\ SUCCESS = FALSE
    /\ exc = "none"
    /\ exitCode = -1
    /\ ANALYTICS = <<>>
    /\ cmds = <<>>
    /\ prompts = <<>>
    /\ printed = <<>>
    /\ outcome = "none"
    /\ handler = FALSE
    /\ sigints = 0

\* sys.exit(1) outside the try block: the process ends at once.
ExitNow == pc' = "exited_startup" /\ exitCode' = 1

\* Mutant of ParseArgs: the mutually-exclusive flag check is missing.
ParseArgsNoCheck ==
    /\ pc = "parse_args"
    /\ pc' = "install_sigint"
    /\ UNCHANGED <<cfgVars, env, gitVars, sessVars, ctlVars, logVars, prompts, printed, sigVars>>

\* Lines 236-241: parse_args and the mutually-exclusive flag check.
ParseArgs ==
    /\ pc = "parse_args"
    /\ IF args.merge_conflict_base /\ args.merge_conflict_side
       THEN ExitNow /\ exc' = "SystemExit"
       ELSE pc' = "install_sigint" /\ UNCHANGED <<exc, exitCode>>
    /\ UNCHANGED <<cfgVars, env, gitVars, sessVars, SUCCESS, logVars, prompts, printed, sigVars>>

\* Line 243.
InstallSigint ==
    /\ pc = "install_sigint"
    /\ handler' = TRUE
    /\ pc' = "check_deps"
    /\ UNCHANGED <<cfgVars, env, gitVars, sessVars, ctlVars, logVars, prompts, printed, sigints>>

\* Line 244, check_deps (69-73): the first missing dependency ends the process.
check_deps ==
    /\ pc = "check_deps"
    /\ IF \E k \in 1..Len(Deps) : ~installed[k]
       THEN ExitNow /\ exc' = "SystemExit"
       ELSE pc' = "read_env" /\ UNCHANGED <<exc, exitCode>>
    /\ UNCHANGED <<cfgVars, env, gitVars, sessVars, SUCCESS, logVars, prompts, printed, sigVars>>

\* Lines 246-248.
ReadEnv ==
    /\ pc = "read_env"
    /\ SUCCESS' = FALSE
    /\ env' \in EnvSpace
    /\ pc' = "init_cleanup"
    /\ UNCHANGED <<cfgVars, gitVars, sessVars, exc, exitCode, logVars, prompts, printed, sigVars>>

\* Mutant of InitCleanup: --retry is not looked at.
InitCleanupAlways ==
    /\ pc = "init_cleanup"
    /\ DoCleanup
    /\ pc' = "ask_base_url"
    /\ UNCHANGED <<cfgVars, env, sessVars, ctlVars, logVars, prompts, printed, sigVars>>

\* Lines 251-252.
InitCleanup ==
    /\ pc = "init_cleanup"
    /\ IF ~args.retry THEN DoCleanup ELSE UNCHANGED gitVars
    /\ pc' = "ask_base_url"
    /\ UNCHANGED <<cfgVars, env, sessVars, ctlVars, logVars, prompts, printed, sigVars>>

\* Lines 256-257: each URL comes from the environment or from the operator.
AskBaseUrl ==
    /\ pc = "ask_base_url"
    /\ prompts' = IF ~env.GITMERGE_BASE THEN Append(prompts, "Base repo URL") ELSE prompts
    /\ pc' = "ask_merge_url"
    /\ UNCHANGED <<cfgVars, env, gitVars, sessVars, ctlVars, logVars, sigVars, printed>>

AskMergeUrl ==
    /\ pc = "ask_merge_url"
    /\ prompts' = IF ~env.GITMERGE_MERGE THEN Append(prompts, "Repo to merge in") ELSE prompts
    /\ pc' = "ask_subdir"
    /\ UNCHANGED <<cfgVars, env, gitVars, sessVars, ctlVars, logVars, sigVars, printed>>

\* Line 258.
AskSubdir ==
    /\ pc = "ask_subdir"
    /\ IF ~args.y
       THEN /\ \E s \in Subdirs : subdir' = s
            /\ prompts' = Append(prompts, "Subdirectory to move merged code into")
       ELSE /\ subdir' = "merged_content"
            /\ UNCHANGED prompts
    /\ pc' = "clone_base"
    /\ UNCHANGED <<cfgVars, env, gitVars, loc, merge_branch, base_branch, outcome,
                   ctlVars, logVars, sigVars, printed>>

----------------------------------------------------------------------------
(* clone_repo, lines 76-97 (called at 261 and 262; the value is dropped).  *)

\* subprocess.Popen(git clone ...): the child creates the target directory
\* unless it exists already.
ClonePopen(d, here, next) ==
    /\ pc = here
    /\ cloneProc' = d
    /\ fs' = [fs EXCEPT ![d] = IF @ = "absent" THEN "cloning" ELSE @]
    /\ pc' = next
    /\ UNCHANGED <<cfgVars, env, tree, remoteHead, mergeHead, cloneRc, origBase, origInc,
                   sessVars, ctlVars, logVars, prompts, printed, sigVars>>

\* The stderr loop and process.wait(): the child ends.  Into an existing
\* directory git clone always fails; a failed clone removes what it created.
CloneResults(d) == IF fs[d] = "cloning" THEN {"ok", "fail"} ELSE {"exists"}

CloneTrees(d) == IF d = BASE_REPO_DIR THEN BaseTrees(subdir) ELSE IncomingTrees

CloneWait(d, here, next) ==
    /\ pc = here
    /\ \E r \in CloneResults(d) :
          /\ cloneRc' = [cloneRc EXCEPT ![d] = r]
          /\ IF r = "ok"
             THEN /\ fs' = [fs EXCEPT ![d] = "repo"]
                  /\ \E t \in CloneTrees(d) : tree' = [tree EXCEPT ![d] = t]
             ELSE /\ fs' = [fs EXCEPT ![d] = IF @ = "cloning" THEN "absent" ELSE @]
                  /\ UNCHANGED tree
    /\ cloneProc' = "none"
    /\ origBase' = IF d = BASE_REPO_DIR THEN tree'[d] ELSE origBase
    /\ origInc' = IF d = MERGE_REPO_DIR THEN tree'[d] ELSE origInc
    /\ pc' = next
    /\ UNCHANGED <<cfgVars, env, remoteHead, mergeHead, sessVars, ctlVars, logVars,
                   prompts, printed, sigVars>>

CloneBase      == ClonePopen(BASE_REPO_DIR, "clone_base", "clone_base_wait")
CloneBaseWait  == CloneWait(BASE_REPO_DIR, "clone_base_wait", "clone_merge")
CloneMerge     == ClonePopen(MERGE_REPO_DIR, "clone_merge", "clone_merge_wait")
CloneMergeWait == CloneWait(MERGE_REPO_DIR, "clone_merge_wait", "list_branches")

----------------------------------------------------------------------------
(* choose_branch, lines 143-157.                                           *)

\* Line 144, list_branches: a failure of `git branch -r` propagates.
ListBranches ==
    /\ pc = "list_branches"
    /\ \E r \in Results(MERGE_REPO_DIR) :
          /\ Logged("git branch -r", "", r)
          /\ IF r = "ok"
             THEN /\ \E raw \in SessionListings :
                        loc' = [branches |-> list_branches(raw), head |-> None,
                                dates |-> <<>>]
                  /\ pc' = "get_head_branch"
                  /\ UNCHANGED exc
             ELSE Raise(ExcOf(r)) /\ UNCHANGED loc
    /\ UNCHANGED <<cfgVars, env, gitVars, subdir, merge_branch, base_branch, outcome,
                   SUCCESS, exitCode, prompts, printed, sigVars>>

\* Where choose_branch goes once head is known.
AfterHead(l) == IF Len(l.branches) = 0 THEN "ask_branch" ELSE "get_commit_dates"

\* Line 145, get_head_branch (107-116): a failure of the query is caught
\* and answered with "main".
GetHeadBranch ==
    /\ pc = "get_head_branch"
    /\ \E r \in Results(MERGE_REPO_DIR) :
          /\ Logged("git remote show origin", "", r)
          /\ \E output \in SessionRemoteShows :
                loc' = [loc EXCEPT !.head = HeadAnswer(r, output)]
    /\ pc' = AfterHead(loc)
    /\ UNCHANGED <<cfgVars, env, gitVars, subdir, merge_branch, base_branch, outcome,
                   ctlVars, prompts, printed, sigVars>>

\* Mutant of AfterLookup: a failed lookup ends the loop.
AfterLookupStops(k, n, r) ==
    IF k = n \/ r # "ok" THEN "ask_branch" ELSE "get_commit_dates"

\* Lines 134-140: after the k-th of n lookups, whatever its result r, the
\* loop goes on until every branch was looked up.
AfterLookup(k, n, r) == IF k = n THEN "ask_branch" ELSE "get_commit_dates"

\* Line 146, get_commit_dates (132-140): one iteration of the loop; a failed
\* lookup is caught and recorded as "N/A".
GetCommitDates ==
    /\ pc = "get_commit_dates"
    /\ LET k == Len(loc.dates) + 1
           b == loc.branches[k]
       IN  /\ \E r \in Results(MERGE_REPO_DIR) :
                 /\ Logged("git log origin/{b} -1 --format=%ci", b, r)
                 /\ loc' = [loc EXCEPT !.dates =
                               Append(@, IF r = "ok" THEN "date" ELSE "N/A")]
                 /\ pc' = AfterLookup(k, Len(loc.branches), r)
    /\ UNCHANGED <<cfgVars, env, gitVars, subdir, merge_branch, base_branch, outcome,
                   ctlVars, prompts, printed, sigVars>>

\* Line 156.
DefaultBranch(l) == IF InSeq(l.head, l.branches) THEN l.head ELSE l.branches[1]

\* Lines 156-157: branches[0] of an empty list raises IndexError; otherwise
\* the operator picks one of the listed branches (Enter picks the default).
AskBranch ==
    /\ pc = "ask_branch"
    /\ IF Len(loc.branches) = 0
       THEN /\ Raise("IndexError")
            /\ UNCHANGED <<merge_branch, prompts>>
       ELSE /\ \E k \in 1..Len(loc.branches) : merge_branch' = loc.branches[k]
            /\ prompts' = Append(prompts, "Select branch to merge")
            /\ pc' = "checkout_merge"
            /\ UNCHANGED exc
    /\ loc' = NoLoc
    /\ UNCHANGED <<cfgVars, env, gitVars, subdir, base_branch, outcome, SUCCESS,
                   exitCode, logVars, sigVars, printed>>

----------------------------------------------------------------------------
(* Lines 265-268.                                                          *)

\* Line 265.
CheckoutMerge ==
    /\ pc = "checkout_merge"
    /\ \E r \in Results(MERGE_REPO_DIR) :
          /\ Logged("git checkout {merge_branch}", merge_branch, r)
          /\ IF r = "ok" THEN pc' = "filter_repo" /\ UNCHANGED exc
             ELSE Raise(ExcOf(r))
    /\ UNCHANGED <<cfgVars, env, gitVars, sessVars, SUCCESS, exitCode, prompts, printed, sigVars>>

\* Mutant of filter_repo_to_subdir: the failure is printed and the session
\* goes on.
filter_repo_to_subdirGoesOn ==
    /\ pc = "filter_repo"
    /\ \E r \in Results(MERGE_REPO_DIR) :
          /\ Logged("git-filter-repo --to-subdirectory-filter {subdir} --force", subdir, r)
          /\ tree' = IF r = "ok" THEN [tree EXCEPT ![MERGE_REPO_DIR] = Relocate(@, subdir)]
                     ELSE tree
          /\ pc' = "ask_base_branch"
          /\ UNCHANGED exc
    /\ UNCHANGED <<cfgVars, env, fs, remoteHead, mergeHead, cloneProc, cloneRc, origBase,
                   origInc, sessVars, SUCCESS, exitCode, prompts, printed, sigVars>>

\* Line 266, filter_repo_to_subdir (119-124): a failure is caught, printed
\* and turned into exit(1), which the finally clause sees as SystemExit.
filter_repo_to_subdir ==
    /\ pc = "filter_repo"
    /\ \E r \in Results(MERGE_REPO_DIR) :
          /\ Logged("git-filter-repo --to-subdirectory-filter {subdir} --force", subdir, r)
          /\ IF r = "ok"
             THEN /\ tree' = [tree EXCEPT ![MERGE_REPO_DIR] = Relocate(@, subdir)]
                  /\ pc' = "ask_base_branch"
                  /\ UNCHANGED exc
             ELSE /\ Raise("SystemExit")
                  /\ UNCHANGED tree
    /\ UNCHANGED <<cfgVars, env, fs, remoteHead, mergeHead, cloneProc, cloneRc, origBase,
                   origInc, sessVars, SUCCESS, exitCode, prompts, printed, sigVars>>

\* Line 268.
AskBaseBranch ==
    /\ pc = "ask_base_branch"
    /\ IF args.base_branch # ""
       THEN base_branch' = args.base_branch /\ UNCHANGED prompts
       ELSE /\ base_branch' = "main"
            /\ prompts' = Append(prompts, "Target branch to merge into")
    /\ pc' = "pm_checkout"
    /\ UNCHANGED <<cfgVars, env, gitVars, subdir, loc, merge_branch, outcome, ctlVars,
                   logVars, sigVars, printed>>

----------------------------------------------------------------------------
(* perform_merge, lines 160-198.                                           *)

\* A run_cmd call whose success changes nothing the model keeps.
SimpleCmd(here, cmd, arg, cwd, next) ==
    /\ pc = here
    /\ \E r \in Results(cwd) :
          /\ Logged(cmd, arg, r)
          /\ IF r = "ok" THEN pc' = next /\ UNCHANGED exc
             ELSE Raise(ExcOf(r))
    /\ UNCHANGED <<cfgVars, env, gitVars, sessVars, SUCCESS, exitCode, prompts, printed, sigVars>>

\* Line 161.
PmCheckout ==
    SimpleCmd("pm_checkout", "git checkout {base_branch}", base_branch, BASE_REPO_DIR,
              "pm_remote_add")

\* Line 162.
PmRemoteAdd ==
    SimpleCmd("pm_remote_add", "git remote add merge_repo ../merge_repo", "", BASE_REPO_DIR,
              "pm_fetch")

\* Mutant of AfterFetch: --merge-preview is not looked at.
AfterFetchNoPreview == "pm_ask_diff"

\* Where perform_merge goes after the fetch (line 165).
AfterFetch == IF args.merge_preview THEN "pm_preview_log" ELSE "pm_ask_diff"

\* Line 163: the fetch brings the incoming head into base_repo.
PmFetch ==
    /\ pc = "pm_fetch"
    /\ \E r \in Results(BASE_REPO_DIR) :
          /\ Logged("git fetch merge_repo", "", r)
          /\ IF r = "ok"
             THEN /\ remoteHead' = tree[MERGE_REPO_DIR]
                  /\ pc' = AfterFetch
                  /\ UNCHANGED exc
             ELSE Raise(ExcOf(r)) /\ UNCHANGED remoteHead
    /\ UNCHANGED <<cfgVars, env, fs, tree, mergeHead, cloneProc, cloneRc, origBase, origInc,
                   sessVars, SUCCESS, exitCode, prompts, printed, sigVars>>

\* Lines 166-168: the preview listings, then perform_merge returns.
PmPreviewLog ==
    SimpleCmd("pm_preview_log", "git log --graph --oneline --all", "", BASE_REPO_DIR,
              "pm_preview_ls")

PmPreviewLs ==
    SimpleCmd("pm_preview_ls", "git ls-tree -r HEAD", "", BASE_REPO_DIR, "show_git_stat")

\* Line 170: the prompt is reached only with --show-diff.
PmAskDiff ==
    /\ pc = "pm_ask_diff"
    /\ IF args.show_diff
       THEN /\ prompts' = Append(prompts, "Show diff before merge?")
            /\ \E answer \in {"yes", "no"} :
                  pc' = IF answer = "yes" THEN "pm_diff" ELSE "pm_merge"
       ELSE /\ pc' = "pm_merge"
            /\ UNCHANGED prompts
    /\ UNCHANGED <<cfgVars, env, gitVars, sessVars, ctlVars, logVars, sigVars, printed>>

\* Line 171, with live_output.
PmDiff ==
    /\ pc = "pm_diff"
    /\ \E r \in Results(BASE_REPO_DIR) :
          /\ Logged("git diff HEAD merge_repo/HEAD", "", r)
          /\ IF r = "ok" THEN pc' = "pm_merge" /\ UNCHANGED exc
             ELSE Raise(ExcOfLive(r))
    /\ UNCHANGED <<cfgVars, env, gitVars, sessVars, SUCCESS, exitCode, prompts, printed, sigVars>>

\* Line 270: the conflict_strategy argument.
conflict_strategy ==
    IF args.merge_conflict_base THEN "base"
    ELSE IF args.merge_conflict_side THEN "side"
    ELSE None

\* Lines 173-177.
strategy_flag ==
    IF conflict_strategy = "base" THEN "-X ours"
    ELSE IF conflict_strategy = "side" THEN "-X theirs"
    ELSE ""

\* The side a -X option names.
SideOf(flag) ==
    IF flag = "-X ours" THEN "ours" ELSE IF flag = "-X theirs" THEN "theirs" ELSE ""

\* Line 184: the test on the text of the exception.  The merge commands
\* are run with live_output.
IsUnrelatedFailure(flag) == Contains(StrELower(TRUE, flag), UnrelatedPhrase)

\* Mutant of ConflictRoute: -y does not skip the prompt.
ConflictRouteNoSkip ==
    IF args.merge_conflict_side \/ args.merge_conflict_base THEN "pm_policy_rerun"
    ELSE "pm_ask_resolve"

\* Lines 190-198: where the conflict branch goes.
ConflictRoute ==
    IF args.merge_conflict_side \/ args.merge_conflict_base THEN "pm_policy_rerun"
    ELSE IF args.y THEN "show_git_stat"
    ELSE "pm_ask_resolve"

LogAll(entries) ==
    /\ cmds' = cmds \o entries
    /\ ANALYTICS' = IF args.analytics THEN ANALYTICS \o entries ELSE ANALYTICS

\* Lines 179-188: the first merge attempt and the routing of its failure.
\* The retry of line 186 runs inside the handler, so it is part of this step.
PmMerge ==
    /\ pc = "pm_merge"
    /\ LET cmd == MergeCmd(strategy_flag)
           X   == SideOf(strategy_flag)
           b   == tree[BASE_REPO_DIR]
           r1  == GitMerge(b, remoteHead, mergeHead, TRUE, X)
           mh1 == mergeHead \/ r1 = "conflict"
           r2  == GitMerge(b, remoteHead, mh1, TRUE, X)
       IN  IF r1 = "ok"
           THEN /\ LogAll(<<Entry(cmd, "", TRUE)>>)
                /\ tree' = [tree EXCEPT ![BASE_REPO_DIR] = MergedTree(b, remoteHead, X)]
                /\ outcome' = "Clean"
                /\ pc' = "show_git_stat"
                /\ UNCHANGED <<mergeHead, exc>>
           ELSE IF IsUnrelatedFailure(strategy_flag)
           THEN /\ LogAll(<<Entry(cmd, "", FALSE), Entry(cmd, "", r2 = "ok")>>)
                /\ IF r2 = "ok"
                   THEN /\ tree' = [tree EXCEPT ![BASE_REPO_DIR] =
                                       MergedTree(b, remoteHead, X)]
                        /\ outcome' = "AutoResolvedUnrelated"
                        /\ pc' = "show_git_stat"
                        /\ UNCHANGED <<mergeHead, exc>>
                   ELSE /\ mergeHead' = (mh1 \/ r2 = "conflict")
                        /\ Raise(Raised(TRUE))
                        /\ UNCHANGED <<tree, outcome>>
           ELSE /\ LogAll(<<Entry(cmd, "", FALSE)>>)
                /\ mergeHead' = mh1
                /\ outcome' = IF ConflictRoute = "show_git_stat"
                              THEN "ConflictsPending" ELSE outcome
                /\ pc' = ConflictRoute
                /\ UNCHANGED <<tree, exc>>
    /\ UNCHANGED <<cfgVars, env, fs, remoteHead, cloneProc, cloneRc, origBase, origInc,
                   subdir, loc, merge_branch, base_branch, SUCCESS, exitCode, prompts, printed,
                   sigVars>>

\* Lines 190-193: the re-run with the pre-selected side.  The command line
\* has no --allow-unrelated-histories.
PmPolicyRerun ==
    /\ pc = "pm_policy_rerun"
    /\ LET X == IF args.merge_conflict_side THEN "theirs" ELSE "ours"
           b == tree[BASE_REPO_DIR]
           r == GitMerge(b, remoteHead, mergeHead, FALSE, X)
       IN  /\ LogAll(<<Entry(RerunCmd(X), "", r = "ok")>>)
           /\ IF r = "ok"
              THEN /\ tree' = [tree EXCEPT ![BASE_REPO_DIR] = MergedTree(b, remoteHead, X)]
                   /\ mergeHead' = FALSE
                   /\ outcome' = "ConflictsResolvedByPolicy"
                   /\ pc' = "show_git_stat"
                   /\ UNCHANGED exc
              ELSE /\ Raise(Raised(TRUE))
                   /\ UNCHANGED <<tree, mergeHead, outcome>>
    /\ UNCHANGED <<cfgVars, env, fs, remoteHead, cloneProc, cloneRc, origBase, origInc,
                   subdir, loc, merge_branch, base_branch, SUCCESS, exitCode, prompts, printed,
                   sigVars>>

\* What the operator may have done in base_repo before pressing Enter.
OperatorChoices == {"leave", "ours", "theirs"}

\* Lines 197-198: perform_merge waits for the operator, who may or may not
\* have concluded the merge in the working area.
PmAskResolve ==
    /\ pc = "pm_ask_resolve"
    /\ prompts' = Append(prompts, "Resolve conflicts in subdir '{subdir_}' then press Enter")
    /\ \E c \in OperatorChoices :
          LET b == tree[BASE_REPO_DIR]
          IN  IF c # "leave" /\ PathConflicts(b, remoteHead) = {}
              THEN /\ tree' = [tree EXCEPT ![BASE_REPO_DIR] = MergedTree(b, remoteHead, c)]
                   /\ mergeHead' = FALSE
              ELSE UNCHANGED <<tree, mergeHead>>
    /\ outcome' = "ConflictsResolvedManually"
    /\ pc' = "show_git_stat"
    /\ UNCHANGED <<cfgVars, env, fs, remoteHead, cloneProc, cloneRc, origBase, origInc,
                   subdir, loc, merge_branch, base_branch, ctlVars, logVars, sigVars, printed>>

----------------------------------------------------------------------------
(* Lines 272-284.                                                          *)

\* Line 272, show_git_stat (201-204); the command is run with live_output.
show_git_stat ==
    /\ pc = "show_git_stat"
    /\ IF args.verbose
       THEN \E r \in Results(BASE_REPO_DIR) :
               /\ Logged("git diff --stat", "", r)
               /\ IF r = "ok" THEN pc' = "ask_push" /\ UNCHANGED exc
                  ELSE Raise(ExcOfLive(r))
       ELSE pc' = "ask_push" /\ UNCHANGED <<exc, logVars>>
    /\ UNCHANGED <<cfgVars, env, gitVars, sessVars, SUCCESS, exitCode, prompts, printed, sigVars>>

\* Line 274.
AskPush ==
    /\ pc = "ask_push"
    /\ prompts' = Append(prompts, "Push to origin?")
    /\ \E answer \in {"yes", "no"} :
          pc' = IF answer = "yes" THEN "push" ELSE "print_analytics"
    /\ UNCHANGED <<cfgVars, env, gitVars, sessVars, ctlVars, logVars, sigVars, printed>>

\* Line 275.
Push ==
    SimpleCmd("push", "git push origin HEAD", "", BASE_REPO_DIR, "print_analytics")

\* Line 277, print_analytics (207-217): with --analytics it prints one table
\* with a row for every entry of ANALYTICS, in their order.
print_analytics ==
    /\ pc = "print_analytics"
    /\ printed' = IF args.analytics THEN Append(printed, ANALYTICS) ELSE printed
    /\ pc' = "set_success"
    /\ UNCHANGED <<cfgVars, env, gitVars, sessVars, ctlVars, logVars, prompts, sigVars>>

\* Line 279.
SetSuccess ==
    /\ pc = "set_success"
    /\ SUCCESS' = TRUE
    /\ pc' = "finally"
    /\ UNCHANGED <<cfgVars, env, gitVars, sessVars, exc, exitCode, logVars, prompts, printed, sigVars>>

\* Mutant of NeedsCleanup: the test is inverted.
NeedsCleanupInverted == SUCCESS

\* Line 283.
NeedsCleanup == ~SUCCESS

\* Exit status of the interpreter once the finally clause is done.
ExitStatus(e) == IF e = "none" THEN 0 ELSE 1

\* Lines 280-284, then the process ends.
Finally ==
    /\ pc = "finally"
    /\ IF NeedsCleanup THEN DoCleanup ELSE UNCHANGED gitVars
    /\ pc' = "exited"
    /\ exitCode' = ExitStatus(exc)
    /\ UNCHANGED <<cfgVars, env, sessVars, SUCCESS, exc, logVars, prompts, printed, sigVars>>

Next ==
    \/ ParseArgs \/ InstallSigint \/ check_deps \/ ReadEnv \/ InitCleanup
    \/ AskBaseUrl \/ AskMergeUrl \/ AskSubdir
    \/ CloneBase \/ CloneBaseWait \/ CloneMerge \/ CloneMergeWait
    \/ ListBranches \/ GetHeadBranch \/ GetCommitDates \/ AskBranch
    \/ CheckoutMerge \/ filter_repo_to_subdir \/ AskBaseBranch
    \/ PmCheckout \/ PmRemoteAdd \/ PmFetch \/ PmPreviewLog \/ PmPreviewLs
    \/ PmAskDiff \/ PmDiff \/ PmMerge \/ PmPolicyRerun \/ PmAskResolve
    \/ show_git_stat \/ AskPush \/ Push \/ print_analytics \/ SetSuccess \/ Finally

Spec == Init /\ [][Next]_vars

----------------------------------------------------------------------------
(* SIGINT, lines 63-66 and 243.  The interpreter calls the handler with    *)
(* (signum, frame); sigint_handler takes no parameter, so the call itself  *)
(* raises TypeError in the main thread, at the statement being executed,   *)
(* and the body of the handler never runs.                                 *)

\* str(e).lower() of that TypeError.
SigintTextLower ==
    <<"sigint_handler()", " ", "takes", " ", "0", " ", "positional", " ", "arguments", " ",
      "but", " ", "2", " ", "were", " ", "given">>

Delivered ==
    /\ handler
    /\ sigints < MaxSigints
    /\ pc \notin {"exited", "exited_startup"}
    /\ sigints' = sigints + 1
    /\ UNCHANGED handler

\* Lines 244-248 are outside the try block: the traceback ends the process.
SigintStartup ==
    /\ Delivered
    /\ pc \in {"check_deps", "read_env"}
    /\ pc' = "exited_startup"
    /\ exc' = "TypeError"
    /\ exitCode' = 1
    /\ UNCHANGED <<cfgVars, env, gitVars, sessVars, SUCCESS, logVars, prompts, printed>>

\* Inside get_head_branch's try: `except Exception` catches it (line 115).
SigintInHeadQuery ==
    /\ Delivered
    /\ pc = "get_head_branch"
    /\ loc' = [loc EXCEPT !.head = "main"]
    /\ pc' = AfterHead(loc)
    /\ UNCHANGED <<cfgVars, env, gitVars, subdir, merge_branch, base_branch, outcome,
                   ctlVars, logVars, prompts, printed>>

\* Inside get_commit_dates' try: caught at line 138, the loop goes on.
SigintInDateLookup ==
    /\ Delivered
    /\ pc = "get_commit_dates"
    /\ loc' = [loc EXCEPT !.dates = Append(@, "N/A")]
    /\ pc' = AfterLookup(Len(loc.dates) + 1, Len(loc.branches), "sigint")
    /\ UNCHANGED <<cfgVars, env, gitVars, subdir, merge_branch, base_branch, outcome,
                   ctlVars, logVars, prompts, printed>>

\* Inside filter_repo_to_subdir's try: caught at line 122, then exit(1).
SigintInFilter ==
    /\ Delivered
    /\ pc = "filter_repo"
    /\ Raise("SystemExit")
    /\ UNCHANGED <<cfgVars, env, gitVars, sessVars, SUCCESS, exitCode, logVars, prompts, printed>>

\* Inside perform_merge's try: caught at line 183 and routed like a failed
\* merge, by the text of the exception.
SigintInMerge ==
    /\ Delivered
    /\ pc = "pm_merge"
    /\ IF Contains(SigintTextLower, UnrelatedPhrase)
       THEN Raise("TypeError") /\ UNCHANGED outcome
       ELSE /\ pc' = ConflictRoute
            /\ outcome' = IF ConflictRoute = "show_git_stat" THEN "ConflictsPending"
                          ELSE outcome
            /\ UNCHANGED exc
    /\ UNCHANGED <<cfgVars, env, gitVars, subdir, loc, merge_branch, base_branch, SUCCESS,
                   exitCode, logVars, prompts, printed>>

\* Inside the finally clause: cleanup() is cut short and the process ends.
SigintInFinally ==
    /\ Delivered
    /\ pc = "finally"
    /\ \E k \in 1..Len(CleanupOrder) :
          CleanupTo(IF NeedsCleanup THEN cleanupStoppedAt(fs, k) ELSE fs)
    /\ pc' = "exited"
    /\ exc' = "TypeError"
    /\ exitCode' = 1
    /\ UNCHANGED <<cfgVars, env, sessVars, SUCCESS, logVars, prompts, printed>>

\* Statements of the try block that no handler of their own surrounds.
Unguarded ==
    {"init_cleanup", "ask_base_url", "ask_merge_url", "ask_subdir", "clone_base",
     "clone_base_wait", "clone_merge", "clone_merge_wait", "list_branches", "ask_branch",
     "checkout_merge", "ask_base_branch", "pm_checkout", "pm_remote_add", "pm_fetch",
     "pm_preview_log", "pm_preview_ls", "pm_ask_diff", "pm_diff", "pm_policy_rerun",
     "pm_ask_resolve", "show_git_stat", "ask_push", "push", "print_analytics",
     "set_success"}

\* Anywhere else in the try block the TypeError reaches the finally clause.
\* A git clone child that was running is not waited for.
SigintInTry ==
    /\ Delivered
    /\ pc \in Unguarded
    /\ Raise("TypeError")
    /\ UNCHANGED <<cfgVars, env, gitVars, sessVars, SUCCESS, exitCode, logVars, prompts, printed>>

\* The git clone child of an abandoned clone_repo ends on its own: it
\* completes the clone or fails and removes what it created.
OrphanClone ==
    /\ cloneProc # "none"
    /\ pc \notin {"clone_base_wait", "clone_merge_wait"}
    /\ \E r \in {"ok", "fail"} :
          fs' = [fs EXCEPT ![cloneProc] =
                    IF @ = "cloning" THEN (IF r = "ok" THEN "repo" ELSE "absent") ELSE @]
    /\ cloneProc' = "none"
    /\ UNCHANGED <<pc, cfgVars, env, tree, remoteHead, mergeHead, cloneRc, origBase, origInc,
                   sessVars, ctlVars, logVars, prompts, printed, sigVars>>

NextInt ==
    \/ Next
    \/ SigintStartup \/ SigintInHeadQuery \/ SigintInDateLookup \/ SigintInFilter
    \/ SigintInMerge \/ SigintInFinally \/ SigintInTry
    \/ OrphanClone

\* Sessions for the study of SIGINT: the flags that only add a report are
\* not given, and the base branch is.
InitInt ==
    /\ Init
    /\ ~args.verbose /\ ~args.analytics /\ args.base_branch = "main"

\* The session with SIGINT delivered at most MaxSigints times.
SpecInt == InitInt /\ [][NextInt]_vars

----------------------------------------------------------------------------
(* Single calls of the functions of the script, on arguments and command   *)
(* results a session may or may not meet.  loc holds the arguments of the  *)
(* call and what it gave.                                                  *)

\* Longest output of a command, in lines.
MaxLines == 3
\* Most entries of a working area.
MaxPaths == 3
\* Most calls of cleanup() in a row.
MaxCalls == 2

SeqsUpTo(S, n) == UNION {[1..k -> S] : k \in 0..n}

NoResult == <<>>

\* Python's str.strip() on a text cut into words and white space.
White == {" ", "\n"}
RECURSIVE LStrip(_)
LStrip(s) == IF s # <<>> /\ Head(s) \in White THEN LStrip(Tail(s)) ELSE s
RECURSIVE RStrip(_)
RStrip(s) == IF s # <<>> /\ Last(s) \in White THEN RStrip(SubSeq(s, 1, Len(s) - 1)) ELSE s
Strip(s) == RStrip(LStrip(s))

\* str(AttributeError) of None.strip().
NoneStripText == <<"'NoneType' object has no attribute 'strip'">>

\* run_cmd, lines 31-50, for a process that ended with returncode and wrote
\* stdout and stderr: subprocess.run is called once; without capture
\* (live_output) result.stdout and result.stderr are None.
run_cmd(cmd, live_output, returncode, stdout, stderr) ==
    LET output == IF live_output THEN <<>> ELSE stdout
    IN  [runs    |-> 1,
         entry   |-> Entry(cmd, "", returncode = 0),
         console |-> IF returncode # 0 /\ ~live_output
                     THEN <<"Error: ">> \o Strip(stderr) ELSE <<>>,
         raised  |-> IF returncode = 0 THEN "none" ELSE Raised(live_output),
         text    |-> IF returncode = 0 THEN <<>>
                     ELSE IF live_output THEN NoneStripText
                     ELSE <<"Command failed: ", cmd>>,
         value   |-> IF returncode = 0 THEN Strip(output) ELSE <<>>]

\* Removal of one entry by rmtree: it fails on a read-only entry and on one
\* that cannot be removed at all.
Func(entry) == entry = "plain"

\* os.chmod(path, stat.S_IWRITE), line 57.
Chmod(entry) == IF entry = "readonly" THEN "plain" ELSE entry

\* Mutant of onerror: the removal is repeated without the chmod.
onerrorNoChmod(entry) == [entry |-> entry, calls |-> 1, ok |-> Func(entry)]

\* onerror, lines 56-58: chmod, then the failed removal once more; its
\* exception, if any, leaves rmtree.
onerror(entry) ==
    LET e == Chmod(entry) IN [entry |-> e, calls |-> 1, ok |-> Func(e)]

\* The arguments of the calls.
BranchLines == {PointerLine("main"), BranchLine("main"), BranchLine("dev"),
                SlashBranchLine, HeadNamedLine}
RemoteShowLines == {OtherLine, HeadBranchLine("main"), HeadBranchLine("dev")}
Stdouts == {<<>>, <<"\n">>, <<"x">>, <<" ", "x", " ", "y", "\n">>}
Stderrs == {<<>>, <<"fatal:", " ", "refusing to merge unrelated histories", "\n">>,
            <<"CONFLICT", "\n">>}
EntryStates == {"plain", "readonly", "stuck"}

CallInputs ==
    [fn : {"list_branches"}, raw : SeqsUpTo(BranchLines, MaxLines), result : {NoResult}]
    \cup [fn : {"get_head_branch"}, r : {"ok", "fail"},
          output : SeqsUpTo(RemoteShowLines, MaxLines),
          branches : {<<"dev">>, <<"dev", "main">>}, result : {NoResult}]
    \cup [fn : {"run_cmd"}, cmd : {"git fetch merge_repo"}, live_output : BOOLEAN,
          returncode : {0, 1}, stdout : Stdouts, stderr : Stderrs, result : {NoResult}]
    \cup [fn : {"merge_handler"}, stderr : Stderrs \ {<<>>}, result : {NoResult}]
    \cup [fn : {"cleanup"}, before : [Dirs -> {"absent", "cloning", "repo"}], calls : {0},
          after : {<<>>}]
    \cup [fn : {"rmtree"}, entries : SeqsUpTo(EntryStates, MaxPaths) \ {<<>>},
          calls : {<<>>}, raised : {FALSE}]

CallArgs ==
    {a \in ArgSpace : /\ ~a.retry /\ ~a.merge_preview /\ ~a.show_diff /\ ~a.verbose
                      /\ ~a.analytics /\ a.base_branch = "main"
                      /\ ~(a.merge_conflict_base /\ a.merge_conflict_side)}

PlainArgs == {a \in CallArgs : ~a.merge_conflict_base /\ ~a.merge_conflict_side /\ ~a.y}

InitCalls ==
    /\ pc = "call"
    /\ loc \in CallInputs
    /\ args \in IF loc.fn = "merge_handler" THEN CallArgs ELSE PlainArgs
    /\ installed = [k \in 1..Len(Deps) |-> TRUE]
    /\ env = [GITMERGE_BASE |-> TRUE, GITMERGE_MERGE |-> TRUE]
    /\ fs \in IF loc.fn = "cleanup" THEN {loc.before}
              ELSE IF loc.fn = "rmtree"
              THEN {[d \in Dirs |-> IF d = BASE_REPO_DIR THEN "repo" ELSE "absent"]}
              ELSE {[d \in Dirs |-> "absent"]}
    /\ tree = [d \in Dirs |-> IF fs[d] # "repo" THEN NoTree
                              ELSE IF d = BASE_REPO_DIR THEN StaleBaseTree
                              ELSE StaleMergeTree]
    /\ remoteHead = NoTree
    /\ mergeHead = FALSE
    /\ cloneProc = "none"
    /\ cloneRc = [d \in Dirs |-> "notrun"]
    /\ origBase = NoTree
    /\ origInc = NoTree
    /\ subdir = ""
    /\ merge_branch = ""
    /\ base_branch = ""
    /\ SUCCESS = FALSE
    /\ exc = "none"
    /\ exitCode = -1
    /\ ANALYTICS = <<>>
    /\ cmds = <<>>
    /\ prompts = <<>>
    /\ printed = <<>>
    /\ outcome = "none"
    /\ handler = FALSE
    /\ sigints = 0

\* What a call of a function that touches no directory leaves alone.
frame == <<cfgVars, env, gitVars, subdir, merge_branch, base_branch, outcome, ctlVars,
           logVars, prompts, printed, sigVars>>

CallListBranches ==
    /\ pc = "call" /\ loc.fn = "list_branches"
    /\ loc' = [loc EXCEPT !.result = list_branches(loc.raw)]
    /\ pc' = "returned"
    /\ UNCHANGED frame

\* get_head_branch, then line 156 of choose_branch on its answer.
CallGetHeadBranch ==
    /\ pc = "call" /\ loc.fn = "get_head_branch"
    /\ LET h == HeadAnswer(loc.r, loc.output)
       IN  loc' = [loc EXCEPT !.result =
                      [head |-> h,
                       default |-> DefaultBranch([head |-> h, branches |-> loc.branches])]]
    /\ pc' = "returned"
    /\ UNCHANGED frame

CallRunCmd ==
    /\ pc = "call" /\ loc.fn = "run_cmd"
    /\ loc' = [loc EXCEPT !.result =
                  run_cmd(loc.cmd, loc.live_output, loc.returncode, loc.stdout, loc.stderr)]
    /\ pc' = "returned"
    /\ UNCHANGED frame

\* Lines 181-198 of perform_merge for a first merge command that exits
\* non-zero having written loc.stderr: the branch the handler takes.
CallMergeHandler ==
    /\ pc = "call" /\ loc.fn = "merge_handler"
    /\ LET e == run_cmd(MergeCmd(strategy_flag), TRUE, 1, <<>>, loc.stderr)
       IN  loc' = [loc EXCEPT !.result =
                      [raised |-> e.raised,
                       route |-> IF IsUnrelatedFailure(strategy_flag) THEN "retry"
                                 ELSE ConflictRoute]]
    /\ pc' = "returned"
    /\ UNCHANGED frame

\* cleanup() called MaxCalls times in a row.
CallCleanup ==
    /\ pc = "call" /\ loc.fn = "cleanup"
    /\ DoCleanup
    /\ loc' = [loc EXCEPT !.calls = @ + 1, !.after = Append(@, fs')]
    /\ pc' = IF loc.calls + 1 = MaxCalls THEN "returned" ELSE "call"
    /\ UNCHANGED <<cfgVars, env, subdir, merge_branch, base_branch, outcome, ctlVars,
                   logVars, prompts, printed, sigVars>>

\* shutil.rmtree(repo, onerror=onerror), line 60, one entry of repo at a
\* step, the directory itself being the last: a removal that fails goes to
\* onerror; when onerror raises rmtree is left with the rest in place.
CallRmtree ==
    /\ pc = "call" /\ loc.fn = "rmtree"
    /\ LET k     == Len(loc.calls) + 1
           entry == loc.entries[k]
           h     == onerror(entry)
           ok    == Func(entry) \/ h.ok
           n     == IF Func(entry) THEN 1 ELSE 1 + h.calls
       IN  /\ loc' = [loc EXCEPT !.calls = Append(@, n), !.raised = ~ok]
           /\ pc' = IF ok /\ k < Len(loc.entries) THEN "call" ELSE "returned"
           /\ exc' = IF ok THEN exc ELSE "PermissionError"
           /\ IF ok /\ k = Len(loc.entries)
              THEN CleanupTo(cleanup(fs))
              ELSE UNCHANGED gitVars
    /\ UNCHANGED <<cfgVars, env, subdir, merge_branch, base_branch, outcome, SUCCESS,
                   exitCode, logVars, prompts, printed, sigVars>>

NextCalls ==
    \/ CallListBranches \/ CallGetHeadBranch \/ CallRunCmd \/ CallMergeHandler
    \/ CallCleanup \/ CallRmtree

SpecCalls == InitCalls /\ [][NextCalls]_vars

----------------------------------------------------------------------------
(* Properties.                                                             *)

Failed(c) == \E k \in 1..Len(cmds) : cmds[k].cmd = c /\ ~cmds[k].success
Ran(c)    == \E k \in 1..Len(cmds) : cmds[k].cmd = c
Asked(q)  == InSeq(q, prompts)

AllAbsent == \A d \in Dirs : fs[d] = "absent"
AllIntact == \A d \in Dirs : fs[d] = "repo"

DateCmd   == "git log origin/{b} -1 --format=%ci"
DiffCmd   == "git diff HEAD merge_repo/HEAD"
StatCmd   == "git diff --stat"
PushCmd   == "git push origin HEAD"
FirstMergeCmds == {MergeCmd(""), MergeCmd("-X ours"), MergeCmd("-X theirs")}
MergeCmds == FirstMergeCmds \cup {RerunCmd("ours"), RerunCmd("theirs")}
ResolvePrompt == "Resolve conflicts in subdir '{subdir_}' then press Enter"

\* C1: a session block that ends with an exception or an exit leaves both
\* working areas destroyed and a non-zero status; a session that reaches
\* SUCCESS leaves both working areas in place and status 0.
C1_CleanupIffNotSuccess ==
    pc = "exited" =>
        IF SUCCESS
        THEN exc = "none" /\ AllIntact /\ exitCode = 0
        ELSE exc # "none" /\ AllAbsent /\ exitCode # 0

C1_Witness ==
    /\ pc = "exited" /\ ~SUCCESS /\ exc = "Exception" /\ exitCode = 1
    /\ \A d \in Dirs : cloneRc[d] = "ok"
    /\ AllAbsent

SessionFailed == ~SUCCESS /\ exitCode # 0 /\ AllAbsent

\* C2 as claimed: a non-zero exit of any command but the per-branch date
\* lookup, or of a clone, ends the session in failure with both working
\* areas absent.
C2_AnyCommandFailureFailsSession ==
    (/\ pc = "exited"
     /\ \/ \E k \in 1..Len(cmds) : ~cmds[k].success /\ cmds[k].cmd # DateCmd
        \/ \E d \in Dirs : cloneRc[d] \in {"fail", "exists"})
    => SessionFailed

\* Commands whose failure the caller catches and recovers from.
RecoveredCmds == {DateCmd, "git remote show origin"} \cup FirstMergeCmds

\* C2 (amended): a non-zero exit of any command run by run_cmd other than
\* the date lookup, the default-branch query and the first merge attempt
\* ends the session in failure with both working areas absent; so does a
\* clone that fails on a target that did not exist before it.
C2_FatalCommandFailureFailsSession ==
    (/\ pc = "exited"
     /\ \/ \E k \in 1..Len(cmds) : ~cmds[k].success /\ cmds[k].cmd \notin RecoveredCmds
        \/ \E d \in Dirs : cloneRc[d] = "fail")
    => SessionFailed

C2_Witness ==
    /\ pc = "exited" /\ Failed(PushCmd) /\ SessionFailed

\* Every incoming path is under subdir in base's head tree and every base
\* path outside subdir is there unchanged.
TreeHasBoth ==
    LET h == tree[BASE_REPO_DIR]
    IN  /\ \A p \in DOMAIN origInc : (<<subdir>> \o p) \in DOMAIN h
        /\ \A p \in DOMAIN origBase :
              p[1] # subdir => p \in DOMAIN h /\ h[p] = origBase[p]

C4_SigintAbortsAndCleans ==
    (sigints > 0 /\ pc \in {"exited", "exited_startup"}) => (exitCode # 0 /\ AllAbsent)

\* C5: a failure of the merge summary or of the push, after perform_merge
\* returned, leaves the session successful and the working areas in place.
C5_PostMergeFailureKeepsSuccess ==
    (pc = "exited" /\ (Failed(StatCmd) \/ Failed(PushCmd)))
    => (SUCCESS /\ exitCode = 0 /\ AllIntact)

\* C6: with a side pre-selected, once the handler of a failed first merge
\* attempt is done the merge was re-run for that side without a prompt and
\* is concluded, the outcome being ConflictsResolvedByPolicy.
C6_PolicyRerunResolves ==
    (/\ conflict_strategy # None
     /\ Failed(MergeCmd(strategy_flag))
     /\ pc # "pm_policy_rerun")
    => (/\ outcome = "ConflictsResolvedByPolicy"
        /\ Ran(RerunCmd(SideOf(strategy_flag)))
        /\ ~Asked(ResolvePrompt))

\* Evidence that a step after perform_merge has started.
LaterStep ==
    \/ pc \in {"show_git_stat", "ask_push", "push", "print_analytics", "set_success"}
    \/ SUCCESS \/ Asked("Push to origin?") \/ Ran(StatCmd) \/ Ran(PushCmd)

MergeRuns == Cardinality({k \in 1..Len(cmds) : cmds[k].cmd \in MergeCmds})

\* C7: after a failed first merge attempt with no side pre-selected, no
\* other merge command is run; with -y the operator is not asked, the
\* outcome is ConflictsPending and base_repo keeps its unconcluded merge;
\* without -y perform_merge waits at the prompt, and no later step starts
\* before the operator answered (ConflictsResolvedManually).
C7_ConflictWithoutSide ==
    (conflict_strategy = None /\ Failed(MergeCmd(""))) =>
        /\ MergeRuns = 1
        /\ args.y =>
              /\ ~Asked(ResolvePrompt) /\ pc # "pm_ask_resolve"
              /\ outcome = "ConflictsPending"
              /\ fs[BASE_REPO_DIR] = "repo" => mergeHead
        /\ ~args.y =>
              /\ ~Asked(ResolvePrompt) => pc = "pm_ask_resolve" /\ ~LaterStep
              /\ Asked(ResolvePrompt) => outcome = "ConflictsResolvedManually"

C7_Witness ==
    /\ conflict_strategy = None /\ Failed(MergeCmd("")) /\ ~args.y
    /\ Asked(ResolvePrompt) /\ pc = "ask_push"

StartupError ==
    \/ args.merge_conflict_base /\ args.merge_conflict_side
    \/ \E k \in 1..Len(Deps) : ~installed[k]

\* C8: with a dependency missing or both conflict flags set the process
\* never gets past start-up, ends with status 1, runs no command, starts no
\* clone and leaves the working-area directories as they were.
C8_StartupErrorTouchesNothing ==
    /\ [](StartupError =>
            /\ pc \in {"parse_args", "install_sigint", "check_deps", "exited_startup"}
            /\ pc = "exited_startup" => exitCode = 1
            /\ cmds = <<>> /\ cloneProc = "none"
            /\ \A d \in Dirs : cloneRc[d] = "notrun")
    /\ [][StartupError => fs' = fs /\ tree' = tree]_vars

C8_Witness ==
    /\ pc = "exited_startup" /\ exitCode = 1
    /\ ~installed[2] /\ ~(args.merge_conflict_base /\ args.merge_conflict_side)
    /\ AllIntact

\* C9: with -y (and both URLs given) the session never waits for the operator.
C9_YesNeverWaits ==
    (args.y /\ env.GITMERGE_BASE /\ env.GITMERGE_MERGE) => prompts = <<>>

PreviewCmds ==
    <<"git checkout {base_branch}", "git remote add merge_repo ../merge_repo",
      "git fetch merge_repo", "git log --graph --oneline --all", "git ls-tree -r HEAD">>

\* What perform_merge does under --merge-preview, but for the commands the
\* session may not run.
PreviewPhase ==
    /\ outcome = "none"
    /\ ~Asked("Show diff before merge?") /\ ~Asked(ResolvePrompt)
    /\ pc \notin {"pm_ask_diff", "pm_diff", "pm_merge", "pm_policy_rerun", "pm_ask_resolve"}
    /\ pc = "show_git_stat" =>
          /\ Len(cmds) >= Len(PreviewCmds)
          /\ \A j \in 1..Len(PreviewCmds) :
                LET e == cmds[Len(cmds) - Len(PreviewCmds) + j]
                IN  e.cmd = PreviewCmds[j] /\ e.success

\* C10 as claimed: under --merge-preview perform_merge runs its five
\* commands and returns, and the session runs no merge and no diff command.
C10_PreviewNoMergeNoDiff ==
    args.merge_preview =>
        /\ PreviewPhase
        /\ \A k \in 1..Len(cmds) : cmds[k].cmd \notin MergeCmds \cup {DiffCmd, StatCmd}

\* C10 (amended): under --merge-preview perform_merge runs its five
\* commands and returns, and the session runs no merge command and no
\* `git diff HEAD merge_repo/HEAD`.
C10_PreviewNoMergeNoPreMergeDiff ==
    args.merge_preview =>
        /\ PreviewPhase
        /\ \A k \in 1..Len(cmds) : cmds[k].cmd \notin MergeCmds \cup {DiffCmd}

C10_Witness ==
    /\ args.merge_preview /\ pc = "exited" /\ SUCCESS
    /\ Ran("git ls-tree -r HEAD")

FilterCmd == "git-filter-repo --to-subdirectory-filter {subdir} --force"

RunsOf(c) == Cardinality({k \in 1..Len(cmds) : cmds[k].cmd = c})

\* C11: git-filter-repo is run at most once in a session; once it failed
\* no other command is run, no base branch is selected, no merge outcome is
\* reached and no push is offered, and the session ends with a non-zero
\* status and both working areas removed.
C11_RelocationFailureEndsSession ==
    /\ RunsOf(FilterCmd) <= 1
    /\ Failed(FilterCmd) =>
          /\ Last(cmds).cmd = FilterCmd
          /\ pc \in {"finally", "exited"}
          /\ exc = "SystemExit" /\ ~SUCCESS
          /\ base_branch = "" /\ outcome = "none"
          /\ ~Asked("Target branch to merge into") /\ ~Asked("Push to origin?")
          /\ pc = "exited" => exitCode # 0 /\ AllAbsent

C11_Witness ==
    /\ pc = "exited" /\ Failed(FilterCmd)
    /\ exitCode = 1 /\ AllAbsent

\* C12: a session run with --analytics that failed after running commands
\* has printed the analytics table, its rows being the commands run, the
\* failed one included, in the order they ran.
C12_FailedSessionStillReports ==
    (args.analytics /\ pc = "exited" /\ ~SUCCESS /\ cmds # <<>>)
    => (printed # <<>> /\ Last(printed) = cmds)

Returned(fn) == pc = "returned" /\ loc.fn = fn

\* The symbolic entries of a listing and the names of its other entries,
\* each name being what follows "origin/".
Symbolic(line) == \E b \in {"dev", "main"} : line = PointerLine(b)
RealNames(raw) == {Tail(raw[k]) : k \in {j \in 1..Len(raw) : ~Symbolic(raw[j])}}

PlaceOf(n) == CHOOSE k \in 1..Len(NameOrder) : NameOrder[k] = n

\* C13: list_branches returns the names of the non-symbolic entries of the
\* listing, each once, in sorted order, no branch dropped or renamed.
C13_ListBranchesExact ==
    Returned("list_branches") =>
        LET res == loc.result
        IN  /\ {<<res[k]>> : k \in 1..Len(res)} = RealNames(loc.raw)
            /\ \A i, j \in 1..Len(res) : i < j => PlaceOf(res[i]) < PlaceOf(res[j])

\* The default branch a remote description advertises: the value of its
\* first "HEAD branch:" line, None when it has no such line.
Advertised(output) ==
    IF \E k \in 1..Len(output) : output[k].hb
    THEN LET first == CHOOSE k \in 1..Len(output) :
                         output[k].hb /\ \A j \in 1..(k - 1) : ~output[j].hb
         IN  output[first].value
    ELSE None

\* C14: get_head_branch returns the advertised default branch wherever its
\* line is in the output, and None when there is no such line or the query
\* failed; choose_branch takes it as the default when it is listed and the
\* first listed branch otherwise.
C14_HeadBranchIsAdvertisedDefault ==
    Returned("get_head_branch") =>
        /\ loc.result.head = IF loc.r = "ok" THEN Advertised(loc.output) ELSE None
        /\ loc.result.default = IF InSeq(loc.result.head, loc.branches)
                                THEN loc.result.head ELSE loc.branches[1]

\* The date lookups run so far, in their order.
DateLookups == SelectSeq(cmds, LAMBDA e : e.cmd = DateCmd)

\* C15: get_commit_dates looks up every branch of the list in turn, whatever
\* lookups failed before, and returns one date per branch: "N/A" for each
\* branch whose lookup failed and the timestamp for every other one; it
\* raises nothing.
C15_DateLookupsAreIsolated ==
    pc \in {"get_commit_dates", "ask_branch"} =>
        /\ exc = "none"
        /\ Len(DateLookups) = Len(loc.dates)
        /\ \A k \in 1..Len(loc.dates) :
              /\ DateLookups[k].arg = loc.branches[k]
              /\ loc.dates[k] = IF DateLookups[k].success THEN "date" ELSE "N/A"
        /\ pc = "ask_branch" => Len(loc.dates) = Len(loc.branches)

C15_Witness ==
    /\ pc = "ask_branch"
    /\ loc.branches = <<"dev", "main">>
    /\ loc.dates = <<"N/A", "date">>

NoneLeft == [d \in Dirs |-> "absent"]

\* C16: cleanup() raises nothing; after it both working areas are absent;
\* called with both absent it leaves the directories as they were, and a
\* second call in a row leaves what the first one left.
C16_CleanupIdempotent ==
    loc.fn = "cleanup" =>
        /\ exc = "none"
        /\ loc.calls >= 1 =>
              /\ fs = NoneLeft /\ tree = [d \in Dirs |-> NoTree]
              /\ loc.before = NoneLeft => fs = loc.before
        /\ \A k \in 1..Len(loc.after) : loc.after[k] = loc.after[1] /\ loc.after[k] = NoneLeft

C16_Witness ==
    /\ Returned("cleanup")
    /\ loc.calls = MaxCalls
    /\ loc.before = [d \in Dirs |-> IF d = BASE_REPO_DIR THEN "absent" ELSE "repo"]
    /\ loc.after = <<NoneLeft, NoneLeft>>

\* What git writes when it refuses to merge histories with no common commit.
UnrelatedRefusal == <<"fatal:", " ", "refusing to merge unrelated histories", "\n">>

\* C17: a first merge attempt that git refused for unrelated histories is
\* answered with the retry of the same command, not with the conflict branch.
C17_UnrelatedRefusalIsRetried ==
    (Returned("merge_handler") /\ loc.stderr = UnrelatedRefusal)
    => loc.result.route = "retry"

\* v is s without the white space at its two ends.
IsTrimOf(v, s) ==
    /\ v # <<>> => Head(v) \notin White /\ Last(v) \notin White
    /\ \E i \in 1..(Len(s) + 1) : \E j \in 0..Len(s) :
          /\ v = SubSeq(s, i, j)
          /\ \A k \in 1..Len(s) : (k < i \/ k > j) => s[k] \in White

\* C18: run_cmd runs the command once; on a non-zero exit, captured or
\* streamed, it raises the command failure whose text names the command; on
\* a zero exit it returns the trimmed output when capturing and the empty
\* string when streaming.
C18_RunCmdContract ==
    Returned("run_cmd") =>
        LET res == loc.result
        IN  /\ res.runs = 1
            /\ res.entry = Entry(loc.cmd, "", loc.returncode = 0)
            /\ loc.returncode # 0 =>
                  /\ res.raised = "Exception"
                  /\ InSeq(loc.cmd, res.text)
            /\ loc.returncode = 0 =>
                  /\ res.raised = "none"
                  /\ IF loc.live_output THEN res.value = <<>>
                     ELSE IsTrimOf(res.value, loc.stdout)

\* C20: while a working area is removed, an entry whose removal fails gets
\* its read-only attribute cleared and one more removal, never a third; when
\* that one succeeds the removal goes on and the area ends absent, when it
\* fails cleanup raises and the area stays.
C20_FailedRemovalRetriedOnce ==
    loc.fn = "rmtree" =>
        LET done == Len(loc.calls)
        IN  /\ \A k \in 1..done :
                  loc.calls[k] = IF loc.entries[k] = "plain" THEN 1 ELSE 2
            /\ loc.raised <=> (done >= 1 /\ loc.entries[done] = "stuck")
            /\ loc.raised =>
                  pc = "returned" /\ exc = "PermissionError" /\ fs[BASE_REPO_DIR] = "repo"
            /\ (pc = "returned" /\ ~loc.raised) =>
                  done = Len(loc.entries) /\ exc = "none" /\ fs[BASE_REPO_DIR] = "absent"

C20_Witness ==
    /\ Returned("rmtree")
    /\ loc.entries = <<"plain", "readonly", "plain">>
    /\ loc.calls = <<1, 2, 1>>
    /\ fs[BASE_REPO_DIR] = "absent"

CheckoutCmd == "git checkout {merge_branch}"

\* The commands of a session in the order of its steps.
StepOrder ==
    << {"git branch -r"}, {"git remote show origin"}, {DateCmd}, {CheckoutCmd}, {FilterCmd},
       {"git checkout {base_branch}"}, {"git remote add merge_repo ../merge_repo"},
       {"git fetch merge_repo"}, {"git log --graph --oneline --all", DiffCmd},
       {"git ls-tree -r HEAD"} \cup FirstMergeCmds, {RerunCmd("ours"), RerunCmd("theirs")},
       {StatCmd}, {PushCmd} >>

StepOf(c) == CHOOSE k \in 1..Len(StepOrder) : c \in StepOrder[k]

Succeeded(c) == \E k \in 1..Len(cmds) : cmds[k].cmd = c /\ cmds[k].success

BeforeClones ==
    {"parse_args", "install_sigint", "check_deps", "read_env", "init_cleanup",
     "ask_base_url", "ask_merge_url", "ask_subdir", "clone_base"}

InMergePhase ==
    {"pm_checkout", "pm_remote_add", "pm_fetch", "pm_preview_log", "pm_preview_ls",
     "pm_ask_diff", "pm_diff", "pm_merge", "pm_policy_rerun", "pm_ask_resolve"}

\* The commands run so far are in the order of the steps, none twice (the
\* date lookup once for a branch), and each step has what it comes after.
StepsInOrder ==
    /\ \A i, j \in 1..Len(cmds) :
          i < j => \/ StepOf(cmds[i].cmd) < StepOf(cmds[j].cmd)
                   \/ /\ cmds[i].cmd = DateCmd /\ cmds[j].cmd = DateCmd
                      /\ cmds[i].arg # cmds[j].arg
    /\ pc \in BeforeClones =>
          /\ cloneProc = "none" /\ cmds = <<>>
          /\ \A d \in Dirs : cloneRc[d] = "notrun"
    /\ cloneRc[MERGE_REPO_DIR] # "notrun" => cloneRc[BASE_REPO_DIR] # "notrun"
    /\ cmds # <<>> => cloneProc = "none" /\ \A d \in Dirs : cloneRc[d] # "notrun"
    /\ Ran(CheckoutCmd) =>
          /\ Asked("Select branch to merge") /\ merge_branch # ""
          /\ Last(cmds).cmd = CheckoutCmd => Last(cmds).arg = merge_branch
    /\ Ran(FilterCmd) => Succeeded(CheckoutCmd)
    /\ (pc \in InMergePhase \/ Ran("git checkout {base_branch}")) =>
          Succeeded(FilterCmd) /\ base_branch # ""
    /\ (pc = "push" \/ Ran(PushCmd)) =>
          /\ Asked("Push to origin?")
          /\ Succeeded("git fetch merge_repo")
          /\ pc \notin InMergePhase

\* C19: the steps of a session come in the documented order, each at most
\* once: the first cleanup before any clone, and not at all under --retry;
\* the incoming checkout after both clones returned and a branch was chosen;
\* git-filter-repo after that checkout succeeded, and in merge_repo, base_repo
\* being left as it is; the merge phase after git-filter-repo succeeded; the
\* push after the merge phase returned and the operator answered yes.
C19_StepsInDocumentedOrder ==
    /\ []StepsInOrder
    /\ [][pc = "init_cleanup" =>
             IF args.retry THEN fs' = fs /\ tree' = tree ELSE fs' = NoneLeft]_vars
    /\ [][fs' # fs => pc \in {"init_cleanup", "clone_base", "clone_base_wait", "clone_merge",
                              "clone_merge_wait", "finally"}]_vars
    /\ [][pc = "filter_repo" =>
             /\ tree'[BASE_REPO_DIR] = tree[BASE_REPO_DIR]
             /\ pc' = "ask_base_branch" =>
                   tree'[MERGE_REPO_DIR] = Relocate(tree[MERGE_REPO_DIR], subdir)]_vars
    /\ [][pc = "ask_push" => (pc' = "push" \/ pc' = "print_analytics")]_vars

C19_Witness ==
    /\ pc = "exited" /\ SUCCESS /\ args.retry
    /\ AllIntact
    /\ Succeeded(PushCmd) /\ Succeeded(FilterCmd) /\ Succeeded(MergeCmd(""))

====
